---- MODULE Spec2Model ----
(***************************************************************************)
(* Configuration management service: the versioning engine (use case       *)
(* layer) over the SQLite configuration store.  Every use-case operation   *)
(* is a sequence of store calls; each store call (one SQL statement, or    *)
(* one transaction) is one atomic step, and the steps of concurrent        *)
(* requests interleave.  Any store call may fail with a driver error.      *)
(***************************************************************************)
EXTENDS Integers, Sequences, FiniteSets, TLC

\* ------------------------------------------------------------- bounds
\* Update and Rollback are started only while the head they read is below
\* MaxVersion, so version numbers stay within 1 .. MaxVersion.
MaxVersion == 3

Names == {"a"}
Data == {"d1", "d2"}
SchemaDocs == {"s_strict", "s_bad"}
MoreSchemaDocs == SchemaDocs \cup {"s_open"}
Procs == {"p1", "p2"}

\* SQL NULL in the nullable rollback_from / rollback_to columns.
Null == -1

VARIABLES
    configurations,   \* table configurations: name -> row
    versions,         \* table versions: <<name, version>> -> row
    version_data,     \* table version_data: <<name, version>> -> data
    schemas,          \* table schemas: name -> schema
    clock,            \* the reading of time.Now(); a committed version write lets time pass
    pc,               \* per request slot: the store call it performs next
    req,              \* per request slot: the operation and its arguments
    cfg,              \* per request slot: the *entity.Configuration local
    wrote,            \* history: tables the running operation has written
    created,          \* history: names for which a Create has returned success
    lastWrite,        \* history: per name, the version and data of the configuration
                      \* the last successful Create, Update or Rollback returned
    returned,         \* the step just taken: its return (request, result, tables
                      \* written) and whether its store call hit a driver error
    gate,             \* the request the router has admitted or refused: route,
                      \* Authorization header, and what the middleware chain did
    response          \* the HTTP response written by the step just taken

store == <<configurations, versions, version_data, schemas>>
vars == <<configurations, versions, version_data, schemas, clock,
          pc, req, cfg, wrote, created, lastWrite, returned, gate, response>>

\* ------------------------------------------------------------- entity
ZeroConfig ==
    [Name |-> "", Version |-> 0, Data |-> "", CreatedAt |-> 0, UpdatedAt |-> 0,
     RollbackFrom |-> 0, RollbackTo |-> 0]

\* Faulty variant of NewConfiguration: time.Now() is read twice.
NewConfiguration_TwoClocks(name, data, now) ==
    [Name |-> name, Version |-> 1, Data |-> data, CreatedAt |-> now,
     UpdatedAt |-> now + 1, RollbackFrom |-> 0, RollbackTo |-> 0]

NewConfiguration(name, data, now) ==
    [Name |-> name, Version |-> 1, Data |-> data, CreatedAt |-> now,
     UpdatedAt |-> now, RollbackFrom |-> 0, RollbackTo |-> 0]

\* Faulty variant of NewVersionFromRollback: the data of the head is kept.
NewVersionFromRollback_KeepData(config, targetVersion, targetData, now) ==
    [Name |-> config.Name, Version |-> config.Version + 1, Data |-> config.Data,
     CreatedAt |-> config.CreatedAt, UpdatedAt |-> now,
     RollbackFrom |-> config.Version, RollbackTo |-> targetVersion]

NewVersionFromRollback(config, targetVersion, targetData, now) ==
    [Name |-> config.Name, Version |-> config.Version + 1, Data |-> targetData,
     CreatedAt |-> config.CreatedAt, UpdatedAt |-> now,
     RollbackFrom |-> config.Version, RollbackTo |-> targetVersion]

\* Faulty variant of UpdateVersion: the creation time is taken from the clock.
UpdateVersion_ResetCreatedAt(c, data, now) ==
    [Name |-> c.Name, Version |-> c.Version + 1, Data |-> data,
     CreatedAt |-> now, UpdatedAt |-> now,
     RollbackFrom |-> 0, RollbackTo |-> 0]

\* Faulty variant of UpdateVersion: the version number skips one.
UpdateVersion_SkipNumber(c, data, now) ==
    [Name |-> c.Name, Version |-> c.Version + 2, Data |-> data,
     CreatedAt |-> c.CreatedAt, UpdatedAt |-> now,
     RollbackFrom |-> 0, RollbackTo |-> 0]

UpdateVersion(c, data, now) ==
    [Name |-> c.Name, Version |-> c.Version + 1, Data |-> data,
     CreatedAt |-> c.CreatedAt, UpdatedAt |-> now,
     RollbackFrom |-> 0, RollbackTo |-> 0]

\* ------------------------------------------------------------- errors
NoError == [kind |-> "ok", msg |-> ""]
\* Faulty variant of NewNotFoundError: the code of an internal error.
NewNotFoundError_WrongCode(resourceType) == [kind |-> "INTERNAL_ERROR", msg |-> resourceType]

NewNotFoundError(resourceType) == [kind |-> "NOT_FOUND", msg |-> resourceType]
NewAlreadyExistsError(resourceType) == [kind |-> "ALREADY_EXISTS", msg |-> resourceType]
NewInvalidRequestError(message) == [kind |-> "INVALID_REQUEST", msg |-> message]
NewValidationFailedError(message) == [kind |-> "VALIDATION_FAILED", msg |-> message]
\* Faulty variant of NewInternalError: the code of a missing resource.
NewInternalError_WrongCode(message) == [kind |-> "NOT_FOUND", msg |-> message]

NewInternalError(message) == [kind |-> "INTERNAL_ERROR", msg |-> message]

\* ------------------------------------------------------------- validator
\* gojsonschema.NewSchema: does the document compile as a JSON Schema.
Compiles(schema) == schema # "s_bad"

\* gojsonschema result.Valid(): "s_strict" (a schema with a required key)
\* accepts the document "d1" and rejects "d2"; "s_open" (the schema {})
\* accepts every document.
Conforms(schema, data) == schema = "s_open" \/ (schema = "s_strict" /\ data = "d1")

\* Faulty variant of ValidateJSON: a rejected document is an internal error.
ValidateJSON_Unclassified(schema, data) ==
    IF ~Compiles(schema) \/ ~Conforms(schema, data)
    THEN NewInternalError("Failed to validate JSON")
    ELSE NoError

ValidateJSON(schema, data) ==
    IF ~Compiles(schema) THEN NewInternalError("Failed to validate JSON")
    ELSE IF ~Conforms(schema, data) THEN NewValidationFailedError("JSON validation failed")
    ELSE NoError

\* Faulty variant of ValidateSchemaDefinition: every document is accepted.
ValidateSchemaDefinition_AcceptAll(schema) == NoError

ValidateSchemaDefinition(schema) ==
    IF ~Compiles(schema) THEN NewInvalidRequestError("Invalid JSON Schema")
    ELSE NoError

\* ------------------------------------------------------------- store rows
Upsert(f, k, v) == [x \in DOMAIN f \cup {k} |-> IF x = k THEN v ELSE f[x]]

\* INSERT INTO configurations (name, version, created_at, updated_at):
\* the rollback columns are left NULL.
ConfigurationRow(config) ==
    [version |-> config.Version, created_at |-> config.CreatedAt,
     updated_at |-> config.UpdatedAt, rollback_from |-> Null, rollback_to |-> Null]

\* Faulty variant of the UPDATE: the rollback columns are left as they were.
UpdatedConfigurations_KeepProvenance(config) ==
    IF config.Name \in DOMAIN configurations
    THEN [configurations EXCEPT ![config.Name] =
            [@ EXCEPT !.version = config.Version, !.updated_at = config.UpdatedAt]]
    ELSE configurations

\* Faulty variant of the UPDATE: created_at is set like updated_at.
UpdatedConfigurations_TouchCreatedAt(config) ==
    IF config.Name \in DOMAIN configurations
    THEN [configurations EXCEPT ![config.Name] =
            [@ EXCEPT !.version = config.Version, !.updated_at = config.UpdatedAt,
                      !.created_at = config.UpdatedAt,
                      !.rollback_from = config.RollbackFrom,
                      !.rollback_to = config.RollbackTo]]
    ELSE configurations

\* Faulty variant of the UPDATE: the version column is left as it was.
UpdatedConfigurations_KeepVersion(config) ==
    IF config.Name \in DOMAIN configurations
    THEN [configurations EXCEPT ![config.Name] =
            [@ EXCEPT !.updated_at = config.UpdatedAt,
                      !.rollback_from = config.RollbackFrom,
                      !.rollback_to = config.RollbackTo]]
    ELSE configurations

\* UPDATE configurations SET version, updated_at, rollback_from, rollback_to
\* WHERE name = ?: created_at is not touched; no row matched is no error.
UpdatedConfigurations(config) ==
    IF config.Name \in DOMAIN configurations
    THEN [configurations EXCEPT ![config.Name] =
            [@ EXCEPT !.version = config.Version, !.updated_at = config.UpdatedAt,
                      !.rollback_from = config.RollbackFrom,
                      !.rollback_to = config.RollbackTo]]
    ELSE configurations

\* PRIMARY KEY (name, version) of versions: the INSERT is rejected when the
\* key is present.
VersionsKeyConflict(name, version) == <<name, version>> \in DOMAIN versions

\* PRIMARY KEY name of configurations.
ConfigurationsKeyConflict(name) == name \in DOMAIN configurations

\* Faulty variant of the INSERT into versions: is_rollback keeps its default.
InsertedVersions_NoFlag(name, version, createdAt, isRollback) ==
    Upsert(versions, <<name, version>>,
           [created_at |-> createdAt, is_rollback |-> FALSE])

\* Faulty variant of the INSERT into versions: the row is not written.
InsertedVersions_Dropped(name, version, createdAt, isRollback) == versions

\* INSERT INTO versions (name, version, created_at, is_rollback)
InsertedVersions(name, version, createdAt, isRollback) ==
    Upsert(versions, <<name, version>>,
           [created_at |-> createdAt, is_rollback |-> isRollback])

\* Faulty variant of the payload write: keyed by name alone, so the payload of
\* every stored version of the name is replaced.
StoredVersionData_ByName(name, version, data) ==
    [k \in DOMAIN version_data \cup {<<name, version>>} |->
        IF k[1] = name THEN data ELSE version_data[k]]

\* INSERT OR REPLACE INTO version_data (name, version, data)
StoredVersionData(name, version, data) ==
    Upsert(version_data, <<name, version>>, data)

\* sql.NullInt64 scanned into the int field: NULL leaves the zero value.
ScanNullInt(x) == IF x = Null THEN 0 ELSE x

\* The Scan of the configurations row in GetConfiguration (Data is read next).
ScanConfiguration(name) ==
    LET row == configurations[name] IN
    [Name |-> name, Version |-> row.version, Data |-> "",
     CreatedAt |-> row.created_at, UpdatedAt |-> row.updated_at,
     RollbackFrom |-> ScanNullInt(row.rollback_from),
     RollbackTo |-> ScanNullInt(row.rollback_to)]

\* ------------------------------------------------------------- requests
EmptyTable == [x \in {} |-> 0]

NoRequest == [op |-> "", name |-> "", data |-> "", target |-> 0, active |-> FALSE]

Pending == [kind |-> "pending", msg |-> "", config |-> ZeroConfig, list |-> <<>>, schema |-> ""]

\* Faulty variant of the error return: the error is dropped, (nil, nil).
Reply_DropsError(err) == [Pending EXCEPT !.kind = "ok"]

\* (nil, err) / err
Reply(err) == [Pending EXCEPT !.kind = err.kind, !.msg = err.msg]
\* (config, nil)
ReplyConfig(config) == [Pending EXCEPT !.kind = "ok", !.config = config]

\* Update and Rollback of name may start: its head is below MaxVersion.
HeadRoom(name) ==
    name \in DOMAIN configurations => configurations[name].version < MaxVersion

\* The step just taken returned nothing and its store call did not fail.
NoReturn ==
    [proc |-> "", req |-> NoRequest, result |-> Pending, wrote |-> {}, faulted |-> FALSE]

\* The step of slot p: res is Pending while the operation goes on.
Returned(p, r, res, w, f) ==
    [proc |-> p, req |-> r, result |-> res, wrote |-> w, faulted |-> f]

\* The operation goes on after a store call that failed (the error is dropped).
Swallowed(p, r) == Returned(p, r, Pending, {}, TRUE)

\* ------------------------------------------------------------- handlers
\* No request is with the router.
NoGate == [route |-> "", header |-> <<>>, next |-> ""]

\* The step wrote no HTTP response.
NoResponse == [status |-> 0, code |-> ""]

\* c.JSON(status, appErr.ToErrorResponse()) / c.JSON(status, result)
Respond(status, res) ==
    [status |-> status, code |-> IF res.kind = "ok" THEN "" ELSE res.kind]

\* Variant of HandlerResponse: every handler tells apart only success and
\* NOT_FOUND, as the read handlers do.
HandlerResponse_ReadOnlyCases(op, res) ==
    IF res.kind = "ok" THEN Respond(200, res)
    ELSE IF res.kind = "NOT_FOUND" THEN Respond(404, res)
    ELSE Respond(500, res)

\* The response each handler of ConfigurationHandler writes for the result
\* of its use case: 'case' lists the error codes the handler tells apart,
\* every other code is answered 500. ValidateConfigurationData has no route.
HandlerResponse(op, res) ==
    CASE op = "create" ->
           IF res.kind = "ok" THEN Respond(201, res)
           ELSE IF res.kind = "ALREADY_EXISTS" THEN Respond(409, res)
           ELSE IF res.kind = "VALIDATION_FAILED" THEN Respond(400, res)
           ELSE Respond(500, res)
      [] op = "update" ->
           IF res.kind = "ok" THEN Respond(200, res)
           ELSE IF res.kind = "NOT_FOUND" THEN Respond(404, res)
           ELSE IF res.kind = "VALIDATION_FAILED" THEN Respond(400, res)
           ELSE Respond(500, res)
      [] op \in {"get", "getversion", "list", "rollback"} ->
           IF res.kind = "ok" THEN Respond(200, res)
           ELSE IF res.kind = "NOT_FOUND" THEN Respond(404, res)
           ELSE Respond(500, res)
      [] op = "register" ->
           IF res.kind = "ok" THEN Respond(201, res)
           ELSE IF res.kind = "INVALID_REQUEST" THEN Respond(400, res)
           ELSE Respond(500, res)
      [] op = "getschema" ->
           IF res.kind = "ok"
           THEN IF Compiles(res.schema) THEN Respond(200, res)
                ELSE [status |-> 500, code |-> "INTERNAL_ERROR"]
           ELSE IF res.kind = "NOT_FOUND" THEN Respond(404, res)
           ELSE Respond(500, res)
      [] OTHER -> NoResponse

\* A request enters slot p and performs its first store call; with l = "idle"
\* the operation returns res at once.
Enter(p, r, l, c, res, fault) ==
    /\ pc[p] = "idle"
    /\ pc' = [pc EXCEPT ![p] = l]
    /\ req' = [req EXCEPT ![p] = IF l = "idle" THEN NoRequest ELSE r]
    /\ cfg' = [cfg EXCEPT ![p] = c]
    /\ wrote' = [wrote EXCEPT ![p] = {}]
    /\ returned' = IF l = "idle" THEN Returned(p, r, res, {}, fault)
                   ELSE IF fault THEN Swallowed(p, r) ELSE NoReturn
    /\ response' = IF l = "idle" THEN HandlerResponse(r.op, res) ELSE NoResponse
    /\ gate' = IF l = "idle" THEN NoGate ELSE gate

\* The request in slot p moves to its next store call, or returns res (l = "idle").
Move(p, l, c, res, w, fault) ==
    /\ pc' = [pc EXCEPT ![p] = l]
    /\ req' = [req EXCEPT ![p] = IF l = "idle" THEN NoRequest ELSE @]
    /\ cfg' = [cfg EXCEPT ![p] = c]
    /\ wrote' = [wrote EXCEPT ![p] = IF l = "idle" THEN {} ELSE @ \cup w]
    /\ returned' = IF l = "idle" THEN Returned(p, req[p], res, wrote[p] \cup w, fault)
                   ELSE IF fault THEN Swallowed(p, req[p]) ELSE NoReturn
    /\ response' = IF l = "idle" THEN HandlerResponse(req[p].op, res) ELSE NoResponse
    /\ gate' = IF l = "idle" THEN NoGate ELSE gate

Request(op, name, data, target) ==
    [op |-> op, name |-> name, data |-> data, target |-> target,
     active |-> op = "get" /\ name \in created]

\* SELECT ... FROM configurations WHERE name = ?
RowFound(name, fault) == ~fault /\ name \in DOMAIN configurations

\* Faulty variant of the payload lookup: a payload the registered schema
\* rejects is reported as not found.
DataFound_SchemaChecked(name, version, fault) ==
    /\ ~fault
    /\ <<name, version>> \in DOMAIN version_data
    /\ name \in DOMAIN schemas
         => Conforms(schemas[name], version_data[<<name, version>>])

\* SELECT data FROM version_data WHERE name = ? AND version = ?
DataFound(name, version, fault) == ~fault /\ <<name, version>> \in DOMAIN version_data

\* repo.GetConfiguration found the row and the payload of its version. Its two
\* SELECTs are taken in one step: no statement deletes a row of version_data,
\* and the head leaves v only by a writer that has read the payload of v, so
\* the pair returns what both SELECTs return at one instant between them.
ConfigurationFound(name, fault) ==
    /\ RowFound(name, fault)
    /\ DataFound(name, configurations[name].version, fault)

\* The *entity.Configuration that repo.GetConfiguration returns.
ReadConfiguration(name) ==
    [ScanConfiguration(name) EXCEPT
        !.Data = version_data[<<name, configurations[name].version>>]]

\* repo.GetSchema returned a schema and no error.
SchemaFound(name, fault) == ~fault /\ name \in DOMAIN schemas

\* Faulty variant of the schema gate: the validator is never consulted.
SchemaGate_NoValidation(name, data, fault) == NoError

\* The schema gate of Create and Update: validation runs only when the
\* schema lookup returned no error.
SchemaGate(name, data, fault) ==
    IF SchemaFound(name, fault) THEN ValidateJSON(schemas[name], data) ELSE NoError

\* repo.CreateConfiguration: one transaction, both INSERTs or neither.
CreateConfigurationFails(config, fault) ==
    \/ fault
    \/ ConfigurationsKeyConflict(config.Name)
    \/ VersionsKeyConflict(config.Name, config.Version)

\* Faulty variant of repo.UpdateConfiguration: versions has no primary key.
UpdateConfigurationFails_NoKey(config, fault) == fault

\* repo.UpdateConfiguration: one transaction, the UPDATE and the INSERT or neither.
UpdateConfigurationFails(config, fault) ==
    fault \/ VersionsKeyConflict(config.Name, config.Version)

\* ------------------------------------------------------------- use cases
CreateConfiguration(p) ==
    \/ /\ \E name \in Names, data \in Data, fault \in BOOLEAN :
            IF ConfigurationFound(name, fault)
            THEN Enter(p, Request("create", name, data, 0), "idle", ZeroConfig,
                       Reply(NewAlreadyExistsError("Configuration")), fault)
            ELSE Enter(p, Request("create", name, data, 0), "create.schema",
                       ZeroConfig, Pending, fault)
       /\ UNCHANGED <<store, clock, created, lastWrite>>
    \/ /\ pc[p] = "create.schema"
       /\ \E fault \in BOOLEAN :
            LET err == SchemaGate(req[p].name, req[p].data, fault) IN
            IF err # NoError
            THEN Move(p, "idle", ZeroConfig, Reply(err), {}, fault)
            ELSE Move(p, "create.insert",
                      NewConfiguration(req[p].name, req[p].data, clock),
                      Pending, {}, fault)
       /\ UNCHANGED <<store, clock, created, lastWrite>>
    \/ /\ pc[p] = "create.insert"
       /\ \E fault \in BOOLEAN :
            IF CreateConfigurationFails(cfg[p], fault)
            THEN Move(p, "idle", ZeroConfig,
                      Reply(NewInternalError("Failed to create configuration")), {}, fault)
                 /\ UNCHANGED <<store, clock>>
            ELSE Move(p, "create.store", cfg[p], Pending,
                      {"configurations", "versions"}, fault)
                 /\ clock' = clock + 1
                 /\ configurations' = Upsert(configurations, cfg[p].Name,
                                             ConfigurationRow(cfg[p]))
                 /\ versions' = InsertedVersions(cfg[p].Name, cfg[p].Version,
                                                 cfg[p].CreatedAt, FALSE)
                 /\ UNCHANGED <<version_data, schemas>>
       /\ UNCHANGED <<created, lastWrite>>
    \/ /\ pc[p] = "create.store"
       /\ \E fault \in BOOLEAN :
            IF fault
            THEN Move(p, "idle", ZeroConfig,
                      Reply(NewInternalError("Failed to store version data")), {}, fault)
                 /\ UNCHANGED <<store, created, lastWrite>>
            ELSE Move(p, "idle", ZeroConfig, ReplyConfig(cfg[p]), {"version_data"}, fault)
                 /\ version_data' = StoredVersionData(req[p].name, cfg[p].Version,
                                                      req[p].data)
                 /\ created' = created \cup {req[p].name}
                 /\ lastWrite' = [lastWrite EXCEPT ![req[p].name] =
                                    [Version |-> cfg[p].Version, Data |-> cfg[p].Data]]
                 /\ UNCHANGED <<configurations, versions, schemas>>
       /\ UNCHANGED clock

\* The tail shared by Update and Rollback: repo.UpdateConfiguration(newConfig),
\* then repo.StoreVersionData(name, newConfig.Version, newConfig.Data).
WriteNewVersion(p, op, failure) ==
    \/ /\ pc[p] = op \o ".update"
       /\ \E fault \in BOOLEAN :
            IF UpdateConfigurationFails(cfg[p], fault)
            THEN Move(p, "idle", ZeroConfig, Reply(NewInternalError(failure)), {}, fault)
                 /\ UNCHANGED <<store, clock>>
            ELSE Move(p, op \o ".store", cfg[p], Pending,
                      {"configurations", "versions"}, fault)
                 /\ clock' = clock + 1
                 /\ configurations' = UpdatedConfigurations(cfg[p])
                 /\ versions' = InsertedVersions(cfg[p].Name, cfg[p].Version,
                                                 cfg[p].UpdatedAt, cfg[p].RollbackFrom > 0)
                 /\ UNCHANGED <<version_data, schemas>>
       /\ UNCHANGED <<created, lastWrite>>
    \/ /\ pc[p] = op \o ".store"
       /\ \E fault \in BOOLEAN :
            IF fault
            THEN Move(p, "idle", ZeroConfig,
                      Reply(NewInternalError("Failed to store version data")), {}, fault)
                 /\ UNCHANGED <<store, lastWrite>>
            ELSE Move(p, "idle", ZeroConfig, ReplyConfig(cfg[p]), {"version_data"}, fault)
                 /\ version_data' = StoredVersionData(req[p].name, cfg[p].Version,
                                                      cfg[p].Data)
                 /\ lastWrite' = [lastWrite EXCEPT ![req[p].name] =
                                    [Version |-> cfg[p].Version, Data |-> cfg[p].Data]]
                 /\ UNCHANGED <<configurations, versions, schemas>>
       /\ UNCHANGED <<clock, created>>

UpdateConfiguration(p) ==
    \/ /\ \E name \in Names, data \in Data, fault \in BOOLEAN :
            HeadRoom(name) /\
            IF ConfigurationFound(name, fault)
            THEN Enter(p, Request("update", name, data, 0), "update.schema",
                       ReadConfiguration(name), Pending, fault)
            ELSE Enter(p, Request("update", name, data, 0), "idle", ZeroConfig,
                       Reply(NewNotFoundError("Configuration")), fault)
       /\ UNCHANGED <<store, clock, created, lastWrite>>
    \/ /\ pc[p] = "update.schema"
       /\ \E fault \in BOOLEAN :
            LET err == SchemaGate(req[p].name, req[p].data, fault) IN
            IF err # NoError
            THEN Move(p, "idle", ZeroConfig, Reply(err), {}, fault)
            ELSE Move(p, "update.update", UpdateVersion(cfg[p], req[p].data, clock),
                      Pending, {}, fault)
       /\ UNCHANGED <<store, clock, created, lastWrite>>
    \/ WriteNewVersion(p, "update", "Failed to update configuration")

RollbackConfiguration(p) ==
    \/ /\ \E name \in Names, targetVersion \in 0 .. MaxVersion, fault \in BOOLEAN :
            HeadRoom(name) /\
            IF ConfigurationFound(name, fault)
            THEN Enter(p, Request("rollback", name, "", targetVersion), "rollback.target",
                       ReadConfiguration(name), Pending, fault)
            ELSE Enter(p, Request("rollback", name, "", targetVersion), "idle", ZeroConfig,
                       Reply(NewNotFoundError("Configuration")), fault)
       /\ UNCHANGED <<store, clock, created, lastWrite>>
    \/ /\ pc[p] = "rollback.target"
       /\ \E fault \in BOOLEAN :
            IF DataFound(req[p].name, req[p].target, fault)
            THEN Move(p, "rollback.update",
                      NewVersionFromRollback(cfg[p], req[p].target,
                          version_data[<<req[p].name, req[p].target>>], clock),
                      Pending, {}, fault)
            ELSE Move(p, "idle", ZeroConfig,
                      Reply(NewNotFoundError("Configuration version")), {}, fault)
       /\ UNCHANGED <<store, clock, created, lastWrite>>
    \/ WriteNewVersion(p, "rollback", "Failed to rollback configuration")

\* Faulty variant of QueryOnly: the schemas table is emptied.
QueryOnly_DropsSchemas ==
    /\ schemas' = EmptyTable
    /\ UNCHANGED <<configurations, versions, version_data, clock, created, lastWrite>>

\* The store calls of the step are SELECT statements: no row is written.
QueryOnly == UNCHANGED <<store, clock, created, lastWrite>>

GetConfiguration(p) ==
    /\ \E name \in Names, fault \in BOOLEAN :
         IF ConfigurationFound(name, fault)
         THEN Enter(p, Request("get", name, "", 0), "idle", ZeroConfig,
                    ReplyConfig(ReadConfiguration(name)), fault)
         ELSE Enter(p, Request("get", name, "", 0), "idle", ZeroConfig,
                    Reply(NewNotFoundError("Configuration")), fault)
    /\ QueryOnly

\* Faulty variant of the UPDATE of schemas: the stored schema is kept.
UpdatedSchemas_KeepFirst(name, schema) == schemas

\* Faulty variant of the UPDATE of schemas: no WHERE clause.
UpdatedSchemas_AllNames(name, schema) == [n \in DOMAIN schemas |-> schema]

\* UPDATE schemas SET schema = ? WHERE name = ?
UpdatedSchemas(name, schema) ==
    [n \in DOMAIN schemas |-> IF n = name THEN schema ELSE schemas[n]]

\* Faulty variant of the INSERT into schemas: no row is added.
InsertedSchemas_Nothing(name, schema) == schemas

\* INSERT INTO schemas (name, schema) VALUES (?, ?)
InsertedSchemas(name, schema) == Upsert(schemas, name, schema)

\* RegisterSchema with the schema of the request drawn from docs.
RegisterSchemaFrom(p, docs) ==
    \/ /\ \E configName \in Names, schema \in docs, fault \in BOOLEAN :
            LET r == Request("register", configName, schema, 0) IN
            IF ValidateSchemaDefinition(schema) # NoError
            THEN Enter(p, r, "idle", ZeroConfig,
                       Reply(ValidateSchemaDefinition(schema)), FALSE)
            ELSE IF fault
            THEN Enter(p, r, "idle", ZeroConfig,
                       Reply(NewInternalError("Failed to register schema")), fault)
            ELSE IF configName \in DOMAIN schemas
            THEN Enter(p, r, "register.update", ZeroConfig, Pending, fault)
            ELSE Enter(p, r, "register.insert", ZeroConfig, Pending, fault)
       /\ UNCHANGED <<store, clock, created, lastWrite>>
    \/ /\ pc[p] = "register.update"
       /\ \E fault \in BOOLEAN :
            IF fault
            THEN Move(p, "idle", ZeroConfig,
                      Reply(NewInternalError("Failed to register schema")), {}, fault)
                 /\ UNCHANGED store
            ELSE Move(p, "idle", ZeroConfig, Reply(NoError), {"schemas"}, fault)
                 /\ schemas' = UpdatedSchemas(req[p].name, req[p].data)
                 /\ UNCHANGED <<configurations, versions, version_data>>
       /\ UNCHANGED <<clock, created, lastWrite>>
    \/ /\ pc[p] = "register.insert"
       /\ \E fault \in BOOLEAN :
            IF fault \/ req[p].name \in DOMAIN schemas
            THEN Move(p, "idle", ZeroConfig,
                      Reply(NewInternalError("Failed to register schema")), {}, fault)
                 /\ UNCHANGED store
            ELSE Move(p, "idle", ZeroConfig, Reply(NoError), {"schemas"}, fault)
                 /\ schemas' = InsertedSchemas(req[p].name, req[p].data)
                 /\ UNCHANGED <<configurations, versions, version_data>>
       /\ UNCHANGED <<clock, created, lastWrite>>

RegisterSchema(p) == RegisterSchemaFrom(p, SchemaDocs)

\* The head of name: the version column of its configurations row (0: no row).
HeadOf(name) ==
    IF name \in DOMAIN configurations THEN configurations[name].version ELSE 0

\* The version numbers that have a row in versions for name.
VersionNumbers(name) == {k[2] : k \in {kk \in DOMAIN versions : kk[1] = name}}

Max(S) == CHOOSE x \in S : \A y \in S : y <= x

\* repo.GetConfigurationVersion found the versions row, the payload and the
\* configurations row of name. Its SELECTs are taken in one step: none of the
\* rows it reads is deleted or changed once written.
ConfigurationVersionFound(name, version, fault) ==
    /\ ~fault
    /\ <<name, version>> \in DOMAIN versions
    /\ <<name, version>> \in DOMAIN version_data
    /\ name \in DOMAIN configurations

\* Faulty variant of ReadConfigurationVersion: UpdatedAt is the head's.
ReadConfigurationVersion_HeadTimes(name, version) ==
    [Name |-> name, Version |-> version,
     Data |-> version_data[<<name, version>>],
     CreatedAt |-> configurations[name].created_at,
     UpdatedAt |-> configurations[name].updated_at,
     RollbackFrom |-> 0, RollbackTo |-> 0]

\* The *entity.Configuration that repo.GetConfigurationVersion returns:
\* CreatedAt is the name's creation time, UpdatedAt the version's.
ReadConfigurationVersion(name, version) ==
    [Name |-> name, Version |-> version,
     Data |-> version_data[<<name, version>>],
     CreatedAt |-> configurations[name].created_at,
     UpdatedAt |-> versions[<<name, version>>].created_at,
     RollbackFrom |-> 0, RollbackTo |-> 0]

\* Faulty variant of ReadVersionList: ORDER BY version DESC.
ReadVersionList_Descending(name) ==
    LET S == VersionNumbers(name)
        nth(i) == CHOOSE v \in S : Cardinality({w \in S : w > v}) = i - 1
    IN [i \in 1 .. Cardinality(S) |->
          [Version |-> nth(i),
           CreatedAt |-> versions[<<name, nth(i)>>].created_at,
           IsRollback |-> versions[<<name, nth(i)>>].is_rollback]]

\* SELECT version, created_at, is_rollback FROM versions WHERE name = ?
\* ORDER BY version: the rows as a sequence of entity.VersionInfo.
ReadVersionList(name) ==
    LET S == VersionNumbers(name)
        nth(i) == CHOOSE v \in S : Cardinality({w \in S : w < v}) = i - 1
    IN [i \in 1 .. Cardinality(S) |->
          [Version |-> nth(i),
           CreatedAt |-> versions[<<name, nth(i)>>].created_at,
           IsRollback |-> versions[<<name, nth(i)>>].is_rollback]]

\* (versions, nil)
ReplyList(list) == [Pending EXCEPT !.kind = "ok", !.list = list]

GetConfigurationVersion(p) ==
    /\ \E name \in Names, version \in 0 .. MaxVersion, fault \in BOOLEAN :
         IF ConfigurationVersionFound(name, version, fault)
         THEN Enter(p, Request("getversion", name, "", version), "idle", ZeroConfig,
                    ReplyConfig(ReadConfigurationVersion(name, version)), fault)
         ELSE Enter(p, Request("getversion", name, "", version), "idle", ZeroConfig,
                    Reply(NewNotFoundError("Configuration version")), fault)
    /\ QueryOnly

ListConfigurationVersions(p) ==
    \/ /\ \E name \in Names, fault \in BOOLEAN :
            IF ConfigurationFound(name, fault)
            THEN Enter(p, Request("list", name, "", 0), "list.versions",
                       ZeroConfig, Pending, fault)
            ELSE Enter(p, Request("list", name, "", 0), "idle", ZeroConfig,
                       Reply(NewNotFoundError("Configuration")), fault)
       /\ QueryOnly
    \/ /\ pc[p] = "list.versions"
       /\ \E fault \in BOOLEAN :
            IF RowFound(req[p].name, fault)
            THEN Move(p, "idle", ZeroConfig,
                      ReplyList(ReadVersionList(req[p].name)), {}, fault)
            ELSE Move(p, "idle", ZeroConfig,
                      Reply(NewInternalError("Failed to list configuration versions")),
                      {}, fault)
       /\ QueryOnly

\* (schema, nil)
ReplySchema(schema) == [Pending EXCEPT !.kind = "ok", !.schema = schema]

\* repo.GetSchema reports sql.ErrNoRows as NotFound and any other failure as
\* it is; the use case answers NotFound for either.
GetSchema(p) ==
    /\ \E configName \in Names, fault \in BOOLEAN :
         IF SchemaFound(configName, fault)
         THEN Enter(p, Request("getschema", configName, "", 0), "idle", ZeroConfig,
                    ReplySchema(schemas[configName]), fault)
         ELSE Enter(p, Request("getschema", configName, "", 0), "idle", ZeroConfig,
                    Reply(NewNotFoundError("Schema")), fault)
    /\ QueryOnly

\* repo.GetSchema, then validator.ValidateJSON(schema, data); the error of the
\* validator is returned as it is.
ValidateConfigurationData(p) ==
    /\ \E configName \in Names, data \in Data, fault \in BOOLEAN :
         IF SchemaFound(configName, fault)
         THEN Enter(p, Request("validate", configName, data, 0), "idle", ZeroConfig,
                    Reply(ValidateJSON(schemas[configName], data)), fault)
         ELSE Enter(p, Request("validate", configName, data, 0), "idle", ZeroConfig,
                    Reply(NewNotFoundError("Schema")), fault)
    /\ QueryOnly

\* ------------------------------------------------------------- repository
\* The methods of ConfigurationRepository called directly, as its tests do:
\* any name, any version number, one call per step.
RepoNames == {"a", "b"}
RepoVersions == {1, 2}

\* The configurations a caller may hand to the repository.
RepoConfigs ==
    {[NewConfiguration(n, "d1", clock) EXCEPT !.Version = v] :
        n \in RepoNames, v \in RepoVersions}

\* The error of the driver, returned by the repository as it is.
DriverError == [kind |-> "DRIVER_ERROR", msg |-> "sql"]

\* A repository method called for name has returned err.
RepoCall(op, name, err, w, fault) ==
    /\ returned' = Returned("repo", Request(op, name, "", 0), Reply(err), w, fault)
    /\ UNCHANGED <<pc, req, cfg, wrote, clock, created, lastWrite, gate, response>>

RepoCreateConfiguration ==
    \E config \in RepoConfigs, fault \in BOOLEAN :
        IF CreateConfigurationFails(config, fault)
        THEN /\ RepoCall("repo.create", config.Name, DriverError, {}, fault)
             /\ UNCHANGED store
        ELSE /\ RepoCall("repo.create", config.Name, NoError,
                         {"configurations", "versions"}, fault)
             /\ configurations' = Upsert(configurations, config.Name,
                                         ConfigurationRow(config))
             /\ versions' = InsertedVersions(config.Name, config.Version,
                                             config.CreatedAt, FALSE)
             /\ UNCHANGED <<version_data, schemas>>

RepoUpdateConfiguration ==
    \E config \in RepoConfigs, fault \in BOOLEAN :
        IF UpdateConfigurationFails(config, fault)
        THEN /\ RepoCall("repo.update", config.Name, DriverError, {}, fault)
             /\ UNCHANGED store
        ELSE /\ RepoCall("repo.update", config.Name, NoError,
                         {"configurations", "versions"}, fault)
             /\ configurations' = UpdatedConfigurations(config)
             /\ versions' = InsertedVersions(config.Name, config.Version,
                                             config.UpdatedAt, config.RollbackFrom > 0)
             /\ UNCHANGED <<version_data, schemas>>

RepoStoreVersionData ==
    \E configName \in RepoNames, version \in RepoVersions, data \in {"d1"},
       fault \in BOOLEAN :
        IF fault
        THEN /\ RepoCall("repo.store", configName, DriverError, {}, fault)
             /\ UNCHANGED store
        ELSE /\ RepoCall("repo.store", configName, NoError, {"version_data"}, fault)
             /\ version_data' = StoredVersionData(configName, version, data)
             /\ UNCHANGED <<configurations, versions, schemas>>

\* One caller: the exists-check and the UPDATE or INSERT that follows it see
\* the same table.
RepoRegisterSchema ==
    \E configName \in RepoNames, schema \in {"s_strict", "s_open"}, fault \in BOOLEAN :
        IF fault
        THEN /\ RepoCall("repo.register", configName, DriverError, {}, fault)
             /\ UNCHANGED store
        ELSE /\ RepoCall("repo.register", configName, NoError, {"schemas"}, fault)
             /\ schemas' = IF configName \in DOMAIN schemas
                           THEN UpdatedSchemas(configName, schema)
                           ELSE InsertedSchemas(configName, schema)
             /\ UNCHANGED <<configurations, versions, version_data>>

\* The SELECTs of GetConfiguration, GetConfigurationVersion,
\* ListConfigurationVersions, GetSchema and GetVersionData.
RepoQuery ==
    \E configName \in RepoNames, fault \in BOOLEAN :
        /\ RepoCall("repo.query", configName,
                    IF fault THEN DriverError
                    ELSE IF configName \in DOMAIN configurations THEN NoError
                    ELSE NewNotFoundError("Configuration"),
                    {}, fault)
        /\ QueryOnly

Init ==
    /\ configurations = EmptyTable
    /\ versions = EmptyTable
    /\ version_data = EmptyTable
    /\ schemas = EmptyTable
    /\ clock = 1
    /\ pc = [p \in Procs |-> "idle"]
    /\ req = [p \in Procs |-> NoRequest]
    /\ cfg = [p \in Procs |-> ZeroConfig]
    /\ wrote = [p \in Procs |-> {}]
    /\ created = {}
    /\ lastWrite = [n \in Names |-> [Version |-> 0, Data |-> ""]]
    /\ returned = NoReturn
    /\ gate = NoGate
    /\ response = NoResponse

Next ==
    \E p \in Procs :
        \/ CreateConfiguration(p)
        \/ UpdateConfiguration(p)
        \/ RollbackConfiguration(p)
        \/ GetConfiguration(p)
        \/ RegisterSchema(p)

Spec == Init /\ [][Next]_vars

\* One request at a time: every operation runs to completion before the next.
\* With a single slot the state space leaves room for the read operations
\* and for a second schema document that compiles.
SeqNext ==
    \/ CreateConfiguration("p1")
    \/ UpdateConfiguration("p1")
    \/ RollbackConfiguration("p1")
    \/ GetConfiguration("p1")
    \/ RegisterSchemaFrom("p1", MoreSchemaDocs)
    \/ GetConfigurationVersion("p1")
    \/ ListConfigurationVersions("p1")
    \/ GetSchema("p1")
    \/ ValidateConfigurationData("p1")

SeqSpec == Init /\ [][SeqNext]_vars

\* ------------------------------------------------------------- router
\* The routes SetupRoutes registers: the eight routes of the /api/v1 group,
\* named after the use case their handler calls, and /health.
APIRoutes == {"create", "get", "update", "list", "getversion", "rollback",
              "register", "getschema"}

\* The API keys the service is configured with (key -> client id).
apiKeys == [k \in {"k1"} |-> "client1"]

\* A header value is a sequence of characters; SP is the space, every
\* other element stands for a run of non-space characters.
SP == " "
Words == {"Bearer", "bearer", "Basic", "k1", "kx"}

\* The Authorization header values requests carry: none, one word, two words
\* separated by one space, and malformed values around a valid key.
Headers ==
    {<<>>}
    \cup {<<w>> : w \in Words}
    \cup {<<w, SP, v>> : w \in Words, v \in Words}
    \cup {<<"Bearer", SP, SP, "k1">>, <<"Bearer", SP, "k1", SP, "k1">>,
          <<"Bearer", "k1">>, <<"Bearer", SP>>}

\* Variant of Split: strings.Fields, which drops empty pieces.
RECURSIVE Split_Fields(_)
Split_Fields(s) ==
    IF s = <<>> THEN <<>>
    ELSE LET rest == Split_Fields(Tail(s)) IN
         IF Head(s) = SP THEN rest
         ELSE IF Len(s) > 1 /\ s[2] # SP
              THEN <<<<Head(s)>> \o Head(rest)>> \o Tail(rest)
              ELSE <<<<Head(s)>>>> \o rest

\* strings.Split(s, " "): the pieces between the spaces, empty pieces kept.
RECURSIVE Split(_)
Split(s) ==
    IF s = <<>> THEN << <<>> >>
    ELSE LET rest == Split(Tail(s)) IN
         IF Head(s) = SP THEN << <<>> >> \o rest
         ELSE <<<<Head(s)>> \o Head(rest)>> \o Tail(rest)

\* strings.ToLower on a piece of the header.
ToLower(part) ==
    [i \in 1..Len(part) |->
        CASE part[i] = "Bearer" -> "bearer"
          [] part[i] = "Basic" -> "basic"
          [] OTHER -> part[i]]

\* The middleware's checks: a header is present, it splits into exactly two
\* parts, the first is "bearer" in any case, the second is a configured key.
HeaderPresent(header) == header # <<>>
BearerFormat(header) ==
    /\ Len(Split(header)) = 2
    /\ ToLower(Split(header)[1]) = <<"bearer">>
KeyValid(header) ==
    /\ Len(Split(header)[2]) = 1
    /\ Split(header)[2][1] \in DOMAIN apiKeys

Unauthorized == [status |-> 401, code |-> "UNAUTHORIZED"]

\* A request to a route of the /api/v1 group passes through
\* AuthMiddleware.Authenticate: AbortWithStatusJSON(401) or c.Next().
Authenticate(p) ==
    /\ pc[p] = "idle"
    /\ gate = NoGate
    /\ \E route \in APIRoutes, header \in Headers :
         IF /\ HeaderPresent(header)
            /\ BearerFormat(header)
            /\ KeyValid(header)
         THEN /\ gate' = [route |-> route, header |-> header, next |-> "handler"]
              /\ response' = NoResponse
         ELSE /\ gate' = [route |-> route, header |-> header, next |-> "abort"]
              /\ response' = Unauthorized
    /\ returned' = NoReturn
    /\ UNCHANGED <<store, clock, pc, req, cfg, wrote, created, lastWrite>>

\* GET /health is registered on the router itself, outside the group.
Health ==
    /\ gate = NoGate
    /\ \E header \in Headers :
         gate' = [route |-> "health", header |-> header, next |-> "health"]
    /\ response' = [status |-> 200, code |-> ""]
    /\ returned' = NoReturn
    /\ UNCHANGED <<store, clock, pc, req, cfg, wrote, created, lastWrite>>

\* The aborted or health request is over: its response has been sent.
Done ==
    /\ gate.next \in {"abort", "health"}
    /\ gate' = NoGate
    /\ response' = NoResponse
    /\ returned' = NoReturn
    /\ UNCHANGED <<store, clock, pc, req, cfg, wrote, created, lastWrite>>

\* A handler refuses the request before calling its use case: the body does
\* not bind, or the version in the path is not a number.
InvalidRequest(p) ==
    /\ pc[p] = "idle"
    /\ gate.next = "handler"
    /\ gate.route \in {"create", "update", "getversion", "rollback", "register"}
    /\ gate' = NoGate
    /\ response' = [status |-> 400, code |-> "INVALID_REQUEST"]
    /\ returned' = NoReturn
    /\ UNCHANGED <<store, clock, pc, req, cfg, wrote, created, lastWrite>>

\* The handler of the admitted request runs.
Handle(p, route, UseCase) ==
    /\ gate.next = "handler"
    /\ gate.route = route
    /\ UseCase

HttpNext ==
    \/ Authenticate("p1")
    \/ Health
    \/ Done
    \/ InvalidRequest("p1")
    \/ Handle("p1", "create", CreateConfiguration("p1"))
    \/ Handle("p1", "get", GetConfiguration("p1"))
    \/ Handle("p1", "update", UpdateConfiguration("p1"))
    \/ Handle("p1", "list", ListConfigurationVersions("p1"))
    \/ Handle("p1", "getversion", GetConfigurationVersion("p1"))
    \/ Handle("p1", "rollback", RollbackConfiguration("p1"))
    \/ Handle("p1", "register", RegisterSchema("p1"))
    \/ Handle("p1", "getschema", GetSchema("p1"))

HttpSpec == Init /\ [][HttpNext]_vars

RepoNext ==
    \/ RepoCreateConfiguration
    \/ RepoUpdateConfiguration
    \/ RepoStoreVersionData
    \/ RepoRegisterSchema
    \/ RepoQuery

RepoSpec == Init /\ [][RepoNext]_vars

\* ------------------------------------------------------------- views
\* An operation returned in the step just taken.
HasReturned == returned.result.kind # "pending"

\* The operation answered because the (name, version) key was taken, not
\* because the driver failed.
ConflictReturned ==
    /\ HasReturned
    /\ returned.req.op \in {"update", "rollback"}
    /\ returned.result.kind = "INTERNAL_ERROR"
    /\ returned.result.msg \in {"Failed to update configuration",
                                "Failed to rollback configuration"}
    /\ ~returned.faulted

\* ------------------------------------------------------------- claims

\* C1: in every reachable store state, for every name with a configurations
\* row, the head stored in the row is the largest version number that has a
\* version record (a row of versions) for the name.
C1_HeadIsMaxVersion ==
    \A n \in DOMAIN configurations :
        /\ VersionNumbers(n) # {}
        /\ configurations[n].version = Max(VersionNumbers(n))

\* C1 witness: a write failed part-way (the head payload is missing, nothing
\* is in flight) on a configuration that has been updated.
C1_Witness ==
    \E n \in DOMAIN configurations :
        /\ configurations[n].version >= 2
        /\ <<n, configurations[n].version>> \notin DOMAIN version_data
        /\ \A p \in Procs : pc[p] = "idle"

\* C2: after every step the version numbers of a name are exactly
\* 1 .. head (no gaps), and a step never rewrites a version row that was
\* already there (no version number is written twice).
C2_ContiguousNoReuse ==
    [][/\ \A n \in Names : VersionNumbers(n)' = 1 .. HeadOf(n)'
       /\ \A k \in DOMAIN versions :
            k \in DOMAIN versions' /\ versions'[k] = versions[k]]_vars

\* C2 witness: a second writer of an existing version number was turned away
\* and the name has reached the largest modelled head.
C2_Witness ==
    /\ ConflictReturned
    /\ HeadOf(returned.req.name) = MaxVersion

\* C3 (as claimed): a Create, Update or Rollback that returns an error has
\* written nothing to the store.
C3_ErrorLeavesStoreUnchanged ==
    (HasReturned /\ returned.req.op \in {"create", "update", "rollback"}
        /\ returned.result.kind # "ok")
    => returned.wrote = {}

\* C4 (as claimed): whenever a configurations row exists for a name, its
\* version-1 record and its version-1 payload exist as well.
C4_CreateAtomic ==
    \A n \in DOMAIN configurations :
        <<n, 1>> \in DOMAIN versions /\ <<n, 1>> \in DOMAIN version_data

\* C5 (as claimed): when Create or Update commits its configuration/version
\* rows while a schema is registered for the name, the data being written
\* conforms to that schema.
C5_SchemaBeforeWrite ==
    [][\A p \in Procs :
        (/\ pc[p] \in {"create.insert", "update.update"}
         /\ versions' # versions
         /\ pc'[p] # pc[p]
         /\ req[p].name \in DOMAIN schemas)
        => Conforms(schemas[req[p].name], cfg[p].Data)]_vars

\* C6: when the validator rejects the data of a Create or Update against the
\* registered schema, the operation returns that ValidationFailed error as it
\* is and the step changes no table; and when the schema lookup does not
\* fail, data the registered schema rejects is refused with that error.
C6_ValidationFailureWritesNothing ==
    [][/\ (/\ HasReturned'
           /\ returned'.req.op \in {"create", "update"}
           /\ returned'.result.kind = "VALIDATION_FAILED")
          => /\ store' = store
             /\ returned'.wrote = {}
             /\ returned'.req.name \in DOMAIN schemas
             /\ returned'.result =
                  Reply(NewValidationFailedError("JSON validation failed"))
             /\ ~Conforms(schemas[returned'.req.name], returned'.req.data)
       /\ \A p \in Procs :
            (/\ pc[p] \in {"create.schema", "update.schema"}
             /\ pc'[p] # pc[p]
             /\ req[p].name \in DOMAIN schemas
             /\ ~Conforms(schemas[req[p].name], req[p].data)
             /\ ~returned'.faulted)
            => /\ returned'.proc = p
               /\ returned'.result.kind = "VALIDATION_FAILED"]_vars

\* C6 witness: an Update of an existing configuration was refused by the
\* validator.
C6_Witness ==
    /\ HasReturned
    /\ returned.req.op = "update"
    /\ returned.result.kind = "VALIDATION_FAILED"
    /\ HeadOf(returned.req.name) >= 1

\* C7 (as claimed): the head of a name moves only from absent to 1 or from N
\* to N+1, and an operation that returns an error, or a read, has not moved it.
C7_HeadMovesOnlyOnSuccess ==
    [][/\ \A n \in Names :
            HeadOf(n)' # HeadOf(n) => HeadOf(n)' = HeadOf(n) + 1
       /\ (HasReturned' /\ returned'.result.kind # "ok")
            => "configurations" \notin returned'.wrote
       /\ (HasReturned' /\ returned'.req.op = "get")
            => returned'.wrote = {}]_vars

\* C8: once both the version row and the payload of (name, v) are in the
\* store, no step changes or removes either, nor the creation time of the
\* name that GetVersion reports with them.
C8_VersionRecordsAppendOnly ==
    [][\A k \in DOMAIN versions \cap DOMAIN version_data :
        /\ k \in DOMAIN versions' /\ versions'[k] = versions[k]
        /\ k \in DOMAIN version_data' /\ version_data'[k] = version_data[k]
        /\ k[1] \in DOMAIN configurations'
        /\ configurations'[k[1]].created_at = configurations[k[1]].created_at]_vars

\* C8 witness: a stale writer tried to write a version whose record and
\* payload were already stored.
C8_Witness ==
    /\ ConflictReturned
    /\ \E v \in 2 .. MaxVersion :
         /\ <<returned.req.name, v>> \in DOMAIN version_data
         /\ <<returned.req.name, v>> \in DOMAIN versions
         /\ HeadOf(returned.req.name) = v

C10_ActiveForever ==
    (HasReturned /\ returned.req.op = "get" /\ returned.req.active
        /\ ~returned.faulted)
    => returned.result.kind = "ok"

\* C11: a Rollback commits its version only on the head N it supersedes
\* (the new version is N+1, rollbackFrom is N); and when it returns success
\* the result has the head's version, rollbackFrom one below it, rollbackTo
\* the requested target and the data stored at the target, and a Get of the
\* name at that moment finds the same version, data and provenance.
C11_RollbackResult ==
    [][\A p \in Procs, n \in Names :
        /\ (/\ pc[p] = "rollback.update"
            /\ pc'[p] = "rollback.store"
            /\ req[p].name = n)
           => /\ HeadOf(n) = cfg[p].RollbackFrom
              /\ cfg[p].Version = cfg[p].RollbackFrom + 1
              /\ HeadOf(n)' = cfg[p].Version
        /\ (/\ pc[p] = "rollback.store"
            /\ req[p].name = n
            /\ returned'.proc = p
            /\ returned'.result.kind = "ok")
           => LET r == returned'.result.config
                  t == req[p].target
              IN /\ r.Version = HeadOf(n)'
                 /\ r.RollbackFrom = r.Version - 1
                 /\ r.RollbackTo = t
                 /\ <<n, t>> \in DOMAIN version_data'
                 /\ r.Data = version_data'[<<n, t>>]
                 /\ ConfigurationFound(n, FALSE)'
                 /\ ReadConfiguration(n)'.Version = r.Version
                 /\ ReadConfiguration(n)'.Data = r.Data
                 /\ ReadConfiguration(n)'.RollbackFrom = r.RollbackFrom
                 /\ ReadConfiguration(n)'.RollbackTo = r.RollbackTo]_vars

\* C11 witness: a Rollback from head 2 to version 1 has returned, and the
\* data it restored is not the data of the head it superseded.
C11_Witness ==
    /\ HasReturned
    /\ returned.req.op = "rollback"
    /\ returned.result.kind = "ok"
    /\ returned.result.config.RollbackFrom = 2
    /\ returned.result.config.RollbackTo = 1
    /\ version_data[<<returned.req.name, 1>>] # version_data[<<returned.req.name, 2>>]

\* C12: a Rollback whose target has no version record when the target is
\* looked up returns NotFound having written nothing: the step changes no
\* table, so a Get of the name answers as before the call; a Rollback that
\* returns without reaching the target lookup returns NotFound as well; and
\* a Rollback never commits a version for a target without a version record.
C12_RollbackTargetMissing ==
    [][\A p \in Procs, n \in Names :
        /\ (/\ pc[p] = "rollback.target"
            /\ pc'[p] # pc[p]
            /\ req[p].name = n
            /\ <<n, req[p].target>> \notin DOMAIN versions)
           => /\ returned'.proc = p
              /\ returned'.result.kind = "NOT_FOUND"
              /\ returned'.result.msg = "Configuration version"
              /\ returned'.wrote = {}
              /\ store' = store
              /\ ConfigurationFound(n, FALSE)' = ConfigurationFound(n, FALSE)
              /\ ConfigurationFound(n, FALSE) => ReadConfiguration(n)' = ReadConfiguration(n)
        /\ (/\ pc[p] = "idle"
            /\ returned'.proc = p
            /\ returned'.req.op = "rollback")
           => /\ returned'.result.kind = "NOT_FOUND"
              /\ returned'.result.msg = "Configuration"
              /\ returned'.wrote = {}
              /\ store' = store
        /\ (/\ pc[p] = "rollback.update"
            /\ pc'[p] = "rollback.store"
            /\ req[p].name = n)
           => /\ <<n, req[p].target>> \in DOMAIN versions
              /\ req[p].target \in 1 .. HeadOf(n)]_vars

\* C12 witness: a Rollback to a version above the head of an existing,
\* readable configuration was answered NotFound without any driver error.
C12_Witness ==
    /\ HasReturned
    /\ returned.req.op = "rollback"
    /\ returned.result.kind = "NOT_FOUND"
    /\ returned.result.msg = "Configuration version"
    /\ ~returned.faulted
    /\ HeadOf(returned.req.name) >= 2
    /\ returned.req.target > HeadOf(returned.req.name)
    /\ ConfigurationFound(returned.req.name, FALSE)

\* C13: with one request at a time and no driver error, a Rollback of a
\* readable configuration to its own head N goes through every step: it
\* builds version N+1 with the data of N and rollbackFrom = rollbackTo = N,
\* adds exactly one version record, (name, N+1) marked is_rollback, and
\* returns that configuration, whose payload equals the payload of N.
C13_RollbackToHead ==
    [][\A n \in Names :
        LET p == "p1" IN
        /\ (/\ pc[p] = "idle"
            /\ returned'.proc = p
            /\ returned'.req.op = "rollback"
            /\ returned'.req.name = n
            /\ ~returned'.faulted)
           => ~ConfigurationFound(n, FALSE)
        /\ (/\ pc[p] = "rollback.target"
            /\ pc'[p] # pc[p]
            /\ req[p].name = n
            /\ req[p].target = cfg[p].Version
            /\ ~returned'.faulted)
           => /\ pc'[p] = "rollback.update"
              /\ cfg'[p].Version = cfg[p].Version + 1
              /\ cfg'[p].Data = cfg[p].Data
              /\ cfg'[p].RollbackFrom = cfg[p].Version
              /\ cfg'[p].RollbackTo = cfg[p].Version
        /\ (/\ pc[p] = "rollback.update"
            /\ pc'[p] # pc[p]
            /\ req[p].name = n
            /\ cfg[p].RollbackTo = cfg[p].RollbackFrom
            /\ ~returned'.faulted)
           => /\ pc'[p] = "rollback.store"
              /\ <<n, cfg[p].Version>> \notin DOMAIN versions
              /\ DOMAIN versions' = DOMAIN versions \cup {<<n, cfg[p].Version>>}
              /\ versions'[<<n, cfg[p].Version>>].is_rollback
              /\ \A k \in DOMAIN versions : versions'[k] = versions[k]
        /\ (/\ pc[p] = "rollback.store"
            /\ pc'[p] # pc[p]
            /\ req[p].name = n
            /\ cfg[p].RollbackTo = cfg[p].RollbackFrom
            /\ ~returned'.faulted)
           => LET r == returned'.result.config IN
              /\ returned'.result.kind = "ok"
              /\ r.Version = HeadOf(n)'
              /\ r.RollbackFrom = r.Version - 1
              /\ r.RollbackTo = r.Version - 1
              /\ version_data'[<<n, r.Version>>] = version_data'[<<n, r.Version - 1>>]
              /\ r.Data = version_data'[<<n, r.Version>>]]_vars

\* C13 witness: a Rollback of head 2 to version 2 has returned version 3.
C13_Witness ==
    /\ HasReturned
    /\ returned.req.op = "rollback"
    /\ returned.result.kind = "ok"
    /\ returned.req.target = 2
    /\ returned.result.config.RollbackFrom = 2
    /\ returned.result.config.Version = 3

\* C14 (as claimed): whenever a configurations row exists for the name, a
\* Create of that name whose existence lookup does not fail is answered
\* AlreadyExists at once and changes no table.
C14_CreateOnExistingName ==
    [][\A p \in Procs, n \in Names :
        (/\ pc[p] = "idle"
         /\ \/ pc'[p] = "create.schema" /\ req'[p].name = n
            \/ returned'.proc = p /\ returned'.req.op = "create"
               /\ returned'.req.name = n
         /\ n \in DOMAIN configurations
         /\ ~returned'.faulted)
        => /\ returned'.proc = p
           /\ returned'.result.kind = "ALREADY_EXISTS"
           /\ store' = store]_vars

\* C15: when a Create returns success, the result has version 1, equal
\* createdAt and updatedAt and the data of the request; the name has exactly
\* one version record, version 1, not a rollback; and GetVersion(name, 1) and
\* Get(name) at that moment both find the request's data.
C15_CreateResult ==
    [][\A p \in Procs, n \in Names :
        (/\ pc[p] = "create.store"
         /\ req[p].name = n
         /\ returned'.proc = p
         /\ returned'.result.kind = "ok")
        => LET r == returned'.result.config IN
           /\ r.Version = 1
           /\ r.CreatedAt = r.UpdatedAt
           /\ r.Data = req[p].data
           /\ r.RollbackFrom = 0 /\ r.RollbackTo = 0
           /\ VersionNumbers(n)' = {1}
           /\ ~versions'[<<n, 1>>].is_rollback
           /\ ConfigurationVersionFound(n, 1, FALSE)'
           /\ ReadConfigurationVersion(n, 1)'.Data = req[p].data
           /\ ConfigurationFound(n, FALSE)'
           /\ ReadConfiguration(n)'.Version = 1
           /\ ReadConfiguration(n)'.Data = req[p].data]_vars

\* C15 witness: a Create that passed the registered schema has returned.
C15_Witness ==
    /\ HasReturned
    /\ returned.req.op = "create"
    /\ returned.result.kind = "ok"
    /\ returned.req.name \in DOMAIN schemas
    /\ Conforms(schemas[returned.req.name], returned.result.config.Data)

\* C16: an Update commits its version only on the head N it read: the
\* commit makes N+1 the head, appends exactly one entry to what ListVersions
\* reads and leaves the earlier entries, the creation time of the name and
\* what GetVersion(name, N) reads as they were; when the Update then returns
\* success the result has version N+1 (the head, and the length of the
\* list), the data of the request and the creation time of version 1, and
\* GetVersion(name, N) still reads what it read before.
C16_UpdateResult ==
    [][\A p \in Procs, n \in Names :
        /\ (/\ pc[p] = "update.update"
            /\ pc'[p] = "update.store"
            /\ req[p].name = n)
           => /\ HeadOf(n) = cfg[p].Version - 1
              /\ HeadOf(n)' = cfg[p].Version
              /\ Len(ReadVersionList(n)) = HeadOf(n)
              /\ Len(ReadVersionList(n)') = Len(ReadVersionList(n)) + 1
              /\ \A i \in 1 .. Len(ReadVersionList(n)) :
                    ReadVersionList(n)'[i] = ReadVersionList(n)[i]
              /\ configurations'[n].created_at = configurations[n].created_at
              /\ ConfigurationVersionFound(n, HeadOf(n), FALSE)
              /\ \A v \in 1 .. HeadOf(n) :
                    ConfigurationVersionFound(n, v, FALSE)
                    => /\ ConfigurationVersionFound(n, v, FALSE)'
                       /\ ReadConfigurationVersion(n, v)' = ReadConfigurationVersion(n, v)
        /\ (/\ pc[p] = "update.store"
            /\ req[p].name = n
            /\ returned'.proc = p
            /\ returned'.result.kind = "ok")
           => LET r == returned'.result.config IN
              /\ r.Version = HeadOf(n)'
              /\ r.Version = cfg[p].Version
              /\ r.Data = req[p].data
              /\ r.RollbackFrom = 0 /\ r.RollbackTo = 0
              /\ r.CreatedAt = versions'[<<n, 1>>].created_at
              /\ r.CreatedAt = configurations'[n].created_at
              /\ Len(ReadVersionList(n)') = r.Version
              /\ ReadVersionList(n)' = ReadVersionList(n)
              /\ ConfigurationVersionFound(n, HeadOf(n) - 1, FALSE)
              /\ ConfigurationVersionFound(n, HeadOf(n) - 1, FALSE)'
              /\ ReadConfigurationVersion(n, HeadOf(n) - 1)'
                    = ReadConfigurationVersion(n, HeadOf(n) - 1)
              /\ ConfigurationFound(n, FALSE)'
              /\ ReadConfiguration(n)'.Data = req[p].data]_vars

\* C16 witness: an Update of head 2 has returned version 3 with data other
\* than the data of version 2, which is still stored.
C16_Witness ==
    /\ HasReturned
    /\ returned.req.op = "update"
    /\ returned.result.kind = "ok"
    /\ returned.result.config.Version = 3
    /\ <<returned.req.name, 2>> \in DOMAIN version_data
    /\ version_data[<<returned.req.name, 2>>] # returned.result.config.Data

\* C17: an Update or Rollback that starts while the name has no
\* configurations row returns at its first store call (the lookup of the
\* configuration), with NotFound "Configuration", having written nothing:
\* the step changes no table and the name still has no row.
C17_WriteOnAbsentName ==
    [][\A p \in Procs, n \in Names :
        (/\ pc[p] = "idle"
         /\ \/ pc'[p] \in {"update.schema", "rollback.target"} /\ req'[p].name = n
            \/ /\ returned'.proc = p
               /\ returned'.req.op \in {"update", "rollback"}
               /\ returned'.req.name = n
         /\ n \notin DOMAIN configurations)
        => /\ pc'[p] = "idle"
           /\ returned'.proc = p
           /\ returned'.result.kind = "NOT_FOUND"
           /\ returned'.result.msg = "Configuration"
           /\ returned'.wrote = {}
           /\ store' = store
           /\ n \notin DOMAIN configurations']_vars

\* C17 witness: a Rollback of a name without a configuration was answered
\* NotFound without a driver error while a schema is registered for the name.
C17_Witness ==
    /\ HasReturned
    /\ returned.req.op = "rollback"
    /\ returned.result.kind = "NOT_FOUND"
    /\ ~returned.faulted
    /\ returned.req.name \notin DOMAIN configurations
    /\ returned.req.name \in DOMAIN schemas

\* C18 (as claimed): a Get whose store calls do not fail, on a name for
\* which a Create, Update or Rollback has returned success, returns the
\* version and data that the last such write returned.
C18_GetReturnsLastWrite ==
    (/\ HasReturned
     /\ returned.req.op = "get"
     /\ ~returned.faulted
     /\ lastWrite[returned.req.name].Version > 0)
    => /\ returned.result.kind = "ok"
       /\ returned.result.config.Version = lastWrite[returned.req.name].Version
       /\ returned.result.config.Data = lastWrite[returned.req.name].Data

C20_HeadProvenance ==
    \A n \in DOMAIN configurations :
        LET row == configurations[n]
            head == row.version
            from == ScanNullInt(row.rollback_from)
            to == ScanNullInt(row.rollback_to)
        IN /\ <<n, head>> \in DOMAIN versions
           /\ IF versions[<<n, head>>].is_rollback
              THEN /\ from = head - 1
                   /\ to \in 1 .. head - 1
                   /\ <<n, to>> \in DOMAIN versions
              ELSE from = 0 /\ to = 0

\* C20 witness: the head is version 3, written by an Update that followed
\* the Rollback that wrote version 2, and no request is in progress.
C20_Witness ==
    /\ \A p \in Procs : pc[p] = "idle"
    /\ \E n \in DOMAIN configurations :
         /\ configurations[n].version = 3
         /\ versions[<<n, 2>>].is_rollback
         /\ ~versions[<<n, 3>>].is_rollback
         /\ <<n, 3>> \in DOMAIN version_data

\* C21: one request at a time. A ListVersions of a name whose configuration
\* can be read, with no store failure, returns one entry for each version
\* 1..head in strictly ascending order, each with the creation time and the
\* rollback flag of its version record; a ListVersions of a name with no
\* configurations row returns NotFound. A version record is inserted with
\* the rollback flag set exactly when the request inserting it is a Rollback.
C21_ListVersions ==
    [][/\ \A p \in Procs, n \in Names :
            (/\ returned'.proc = p
             /\ returned'.req.op = "list"
             /\ returned'.req.name = n
             /\ ~returned'.faulted)
            => LET l == returned'.result.list IN
               /\ n \notin DOMAIN configurations
                    => returned'.result.kind = "NOT_FOUND"
               /\ (n \in DOMAIN configurations
                   /\ <<n, HeadOf(n)>> \in DOMAIN version_data)
                    => /\ returned'.result.kind = "ok"
                       /\ Len(l) = HeadOf(n)
                       /\ \A i \in 1 .. Len(l) :
                            /\ l[i].Version = i
                            /\ l[i].CreatedAt = versions[<<n, i>>].created_at
                            /\ l[i].IsRollback = versions[<<n, i>>].is_rollback
                       /\ \A i, j \in 1 .. Len(l) :
                            i < j => l[i].Version < l[j].Version
       /\ \A p \in Procs, n \in Names, v \in 1 .. MaxVersion :
            (/\ req[p].name = n
             /\ <<n, v>> \notin DOMAIN versions
             /\ <<n, v>> \in DOMAIN versions')
            => /\ pc[p] \in {"create.insert", "update.update", "rollback.update"}
                    => versions'[<<n, v>>].is_rollback = (req[p].op = "rollback")
               /\ v = 1 => ~versions'[<<n, v>>].is_rollback]_vars

\* A list of three entries whose last version was produced by a Rollback.
C21_Witness ==
    /\ returned.req.op = "list"
    /\ returned.result.kind = "ok"
    /\ ~returned.faulted
    /\ Len(returned.result.list) = 3
    /\ returned.result.list[3].IsRollback
    /\ ~returned.result.list[2].IsRollback

\* C22 (as claimed): a store call that fails for another reason than an
\* absent row ends the operation making it: the operation returns an error
\* in that step and goes on to no further store call.
C22_NoFailureSwallowed ==
    [][returned'.faulted
        => /\ returned'.result.kind \notin {"pending", "ok"}
           /\ pc'[returned'.proc] = "idle"]_vars

\* C23 (as claimed): Get, GetVersion, ListVersions and GetSchema return
\* NotFound exactly when the configurations row, the version record or the
\* schema row they ask for is absent; a store failure and a head whose payload
\* is missing are reported as an error of another kind.
C23_NotFoundOnlyWhenAbsent ==
    [][\A n \in Names :
        (/\ returned'.req.op \in {"get", "getversion", "list", "getschema"}
         /\ returned'.req.name = n
         /\ returned'.result.kind # "pending")
        => LET absent ==
                 CASE returned'.req.op = "getschema" -> n \notin DOMAIN schemas
                   [] returned'.req.op = "getversion" ->
                        \/ n \notin DOMAIN configurations
                        \/ <<n, returned'.req.target>> \notin DOMAIN versions
                   [] OTHER -> n \notin DOMAIN configurations
           IN (returned'.result.kind = "NOT_FOUND") <=> absent]_vars

\* C24: one request at a time. The schemas table holds at most one schema for
\* a name and changes only in the step in which a RegisterSchema returns
\* success, which leaves the schema of that request as the schema of the name;
\* so the stored schema is the one of the last successful RegisterSchema. A
\* GetSchema whose query does not fail returns the stored schema, and
\* NotFound for a name with no schema.
C24_LastSchemaWins ==
    [][/\ \A n \in Names :
            (/\ returned'.req.op = "register"
             /\ returned'.req.name = n
             /\ returned'.result.kind = "ok")
            => /\ n \in DOMAIN schemas'
               /\ schemas'[n] = returned'.req.data
       /\ schemas' # schemas
            => /\ returned'.req.op = "register"
               /\ returned'.result.kind = "ok"
               /\ \A n \in DOMAIN schemas : n # returned'.req.name
                                             => /\ n \in DOMAIN schemas'
                                                /\ schemas'[n] = schemas[n]
       /\ \A n \in Names :
            (/\ returned'.req.op = "getschema"
             /\ returned'.req.name = n
             /\ ~returned'.faulted)
            => IF n \in DOMAIN schemas
               THEN /\ returned'.result.kind = "ok"
                    /\ returned'.result.schema = schemas[n]
               ELSE returned'.result.kind = "NOT_FOUND"]_vars

\* A RegisterSchema of another schema has found the schema registered first
\* and is about to replace it.
C24_Witness ==
    /\ pc["p1"] = "register.update"
    /\ req["p1"].data = "s_open"
    /\ "a" \in DOMAIN schemas
    /\ schemas["a"] = "s_strict"

\* C25 (as claimed): a RegisterSchema with a schema that compiles, none of
\* whose store calls suffers a driver failure, returns success whatever
\* another RegisterSchema of the same name does meanwhile, and leaves a
\* schema of one of the requests stored.
C25_ConcurrentRegisterSchema ==
    [][\A n \in Names :
        (/\ returned'.req.op = "register"
         /\ returned'.req.name = n
         /\ returned'.req.data = "s_strict"
         /\ returned'.result.kind # "pending"
         /\ ~returned'.faulted)
        => /\ returned'.result.kind = "ok"
           /\ n \in DOMAIN schemas'
           /\ schemas'[n] = "s_strict"]_vars

\* C26: a RegisterSchema with a schema that does not compile returns the
\* validator's error (code INVALID_REQUEST, "Invalid JSON Schema") in the step
\* in which it arrives, before any store call; no table changes, the schema
\* stored for the name (or its absence) stays, and the schema gate of Create
\* and Update gives every document the verdict it gave before.
C26_InvalidSchemaRejected ==
    [][\A p \in Procs, n \in Names :
        (/\ pc[p] = "idle"
         /\ pc'[p] # "idle" \/ returned'.proc = p
         /\ \/ req'[p].op = "register" /\ req'[p].name = n /\ req'[p].data = "s_bad"
            \/ /\ returned'.proc = p
               /\ returned'.req.op = "register"
               /\ returned'.req.name = n
               /\ returned'.req.data = "s_bad")
        => /\ returned'.proc = p
           /\ pc'[p] = "idle"
           /\ returned'.result.kind = "INVALID_REQUEST"
           /\ returned'.result.msg = "Invalid JSON Schema"
           /\ returned'.wrote = {}
           /\ ~returned'.faulted
           /\ store' = store
           /\ (n \in DOMAIN schemas') = (n \in DOMAIN schemas)
           /\ n \in DOMAIN schemas => schemas'[n] = schemas[n]
           /\ \A d \in Data : SchemaGate(n, d, FALSE)' = SchemaGate(n, d, FALSE)]_vars

\* A schema that does not compile was refused while a schema is registered.
C26_Witness ==
    /\ returned.req.op = "register"
    /\ returned.req.data = "s_bad"
    /\ returned.result.kind = "INVALID_REQUEST"
    /\ "a" \in DOMAIN schemas
    /\ schemas["a"] = "s_strict"
    /\ SchemaGate("a", "d2", FALSE).kind = "VALIDATION_FAILED"

\* C27: one request at a time. No step of a RegisterSchema changes a
\* configurations row, a version record or a payload, so what Get reads for
\* the name stays as it was, also when the new schema rejects the head's data.
\* A RegisterSchema of a schema that compiles, with no store failure, returns
\* success and leaves its schema stored, with or without a configuration of
\* the name.
C27_RegisterSchemaFrame ==
    [][\A n \in Names :
        (\/ pc["p1"] \in {"register.update", "register.insert"}
         \/ pc'["p1"] \in {"register.update", "register.insert"}
         \/ returned'.req.op = "register")
        => /\ configurations' = configurations
           /\ versions' = versions
           /\ version_data' = version_data
           /\ clock' = clock
           /\ ConfigurationFound(n, FALSE)
                => /\ ConfigurationFound(n, FALSE)'
                   /\ ReadConfiguration(n)' = ReadConfiguration(n)
           /\ (/\ returned'.req.op = "register"
               /\ returned'.req.name = n
               /\ returned'.req.data \in {"s_strict", "s_open"}
               /\ ~returned'.faulted)
                => /\ returned'.result.kind = "ok"
                   /\ n \in DOMAIN schemas'
                   /\ schemas'[n] = returned'.req.data]_vars

\* A schema was registered that rejects the data of the head, which stays.
C27_Witness ==
    /\ returned.req.op = "register"
    /\ returned.req.data = "s_strict"
    /\ returned.result.kind = "ok"
    /\ returned.wrote = {"schemas"}
    /\ ConfigurationFound("a", FALSE)
    /\ ReadConfiguration("a").Data = "d2"
    /\ schemas["a"] = "s_strict"

\* C28: one request at a time. The created_at of a configurations row never
\* changes and is the creation time of the name's version 1, the one Create
\* set; every Get and every GetVersion of any version that returns a
\* configuration returns that time as createdAt. A write that moves the head
\* refreshes updated_at.
C28_CreatedAtImmutable ==
    [][\A n \in Names :
        /\ n \in DOMAIN configurations
             => /\ n \in DOMAIN configurations'
                /\ configurations'[n].created_at = configurations[n].created_at
                /\ configurations'[n].version # configurations[n].version
                     => configurations'[n].updated_at > configurations[n].updated_at
        /\ n \in DOMAIN configurations'
             => /\ <<n, 1>> \in DOMAIN versions'
                /\ configurations'[n].created_at = versions'[<<n, 1>>].created_at
        /\ (/\ returned'.req.op \in {"get", "getversion"}
            /\ returned'.req.name = n
            /\ returned'.result.kind = "ok")
             => returned'.result.config.CreatedAt = versions[<<n, 1>>].created_at]_vars

\* GetVersion of a later version returns the creation time of version 1
\* after an Update and a Rollback have moved the head.
C28_Witness ==
    /\ returned.req.op = "getversion"
    /\ returned.req.target = 2
    /\ returned.result.kind = "ok"
    /\ HeadOf("a") = 3
    /\ versions[<<"a", 3>>].is_rollback
    /\ returned.result.config.CreatedAt = versions[<<"a", 1>>].created_at
    /\ returned.result.config.UpdatedAt > returned.result.config.CreatedAt
    /\ configurations["a"].updated_at > configurations["a"].created_at

\* C29: one request at a time. A GetVersion(name, v) whose queries do not
\* fail returns, when the version record and its payload are stored, the
\* name, the version v, the payload of v, the creation time of the
\* configuration and the creation time of the version record as updatedAt,
\* and for the head the data and updatedAt that Get reads; it returns
\* NotFound when the name or the version record is absent.
C29_GetVersionResult ==
    [][\A n \in Names, v \in 0 .. MaxVersion :
        (/\ returned'.req.op = "getversion"
         /\ returned'.req.name = n
         /\ returned'.req.target = v
         /\ ~returned'.faulted)
        => LET c == returned'.result.config IN
           /\ (n \notin DOMAIN configurations \/ <<n, v>> \notin DOMAIN versions)
                => returned'.result.kind = "NOT_FOUND"
           /\ (/\ n \in DOMAIN configurations
               /\ <<n, v>> \in DOMAIN versions
               /\ <<n, v>> \in DOMAIN version_data)
                => /\ returned'.result.kind = "ok"
                   /\ c.Name = n
                   /\ c.Version = v
                   /\ c.Data = version_data[<<n, v>>]
                   /\ c.CreatedAt = versions[<<n, 1>>].created_at
                   /\ c.UpdatedAt = versions[<<n, v>>].created_at
                   /\ v = HeadOf(n)
                        => /\ c.Data = ReadConfiguration(n).Data
                           /\ c.UpdatedAt = ReadConfiguration(n).UpdatedAt]_vars

\* GetVersion of an earlier version returns data and a time that are not the
\* head's.
C29_Witness ==
    /\ returned.req.op = "getversion"
    /\ returned.req.target = 1
    /\ returned.result.kind = "ok"
    /\ HeadOf("a") = 2
    /\ ConfigurationFound("a", FALSE)
    /\ returned.result.config.Data # ReadConfiguration("a").Data
    /\ returned.result.config.UpdatedAt < ReadConfiguration("a").UpdatedAt
    /\ returned.result.config.CreatedAt = ReadConfiguration("a").CreatedAt

\* C30: a ValidateData(name, data) whose schema lookup does not fail returns
\* NotFound when no schema is stored for the name, the validator's
\* ValidationFailed error when the stored schema rejects the data, and
\* success otherwise; with or without a failure it changes no table.
C30_ValidateData ==
    [][\A n \in Names, d \in Data :
        (/\ returned'.req.op = "validate"
         /\ returned'.req.name = n
         /\ returned'.req.data = d)
        => /\ store' = store
           /\ returned'.wrote = {}
           /\ returned'.result.kind # "pending"
           /\ ~returned'.faulted
                => returned'.result.kind =
                     IF n \notin DOMAIN schemas THEN "NOT_FOUND"
                     ELSE IF schemas[n] = "s_strict" /\ d = "d2"
                          THEN "VALIDATION_FAILED"
                          ELSE "ok"]_vars

\* Data that the stored schema rejects was answered ValidationFailed while a
\* configuration of the name is stored.
C30_Witness ==
    /\ returned.req.op = "validate"
    /\ returned.req.data = "d2"
    /\ returned.result.kind = "VALIDATION_FAILED"
    /\ returned.result.msg = "JSON validation failed"
    /\ schemas["a"] = "s_strict"
    /\ ConfigurationFound("a", FALSE)

\* C31 (as claimed): of two interleaved Creates of one absent name, the one
\* whose INSERT comes second, with no driver failure, is answered
\* AlreadyExists.
C31_ConcurrentCreate ==
    [][\A p \in Procs :
        (/\ pc[p] = "create.insert"
         /\ returned'.proc = p
         /\ returned'.result.kind # "pending"
         /\ ~returned'.faulted)
        => returned'.result.kind = "ALREADY_EXISTS"]_vars

\* C33: in Update and Rollback the step that calls repo.UpdateConfiguration
\* either commits the head and the version record of the new version and
\* goes on to StoreVersionData, or returns InternalError with every table
\* unchanged and no further store call; a payload is written only by the
\* StoreVersionData step, for a version whose record is already stored.
C33_PayloadAfterMetadata ==
    [][/\ \A p \in Procs, n \in Names :
            (/\ pc[p] \in {"update.update", "rollback.update"}
             /\ pc'[p] # pc[p]
             /\ req[p].name = n)
            => \/ /\ pc'[p] \in {"update.store", "rollback.store"}
                  /\ <<n, cfg[p].Version>> \in DOMAIN versions'
                  /\ HeadOf(n)' = cfg[p].Version
                  /\ version_data' = version_data
               \/ /\ pc'[p] = "idle"
                  /\ returned'.proc = p
                  /\ returned'.result.kind = "INTERNAL_ERROR"
                  /\ returned'.wrote = {}
                  /\ store' = store
       /\ version_data' # version_data
            => \E p \in Procs :
                 /\ pc[p] \in {"create.store", "update.store", "rollback.store"}
                 /\ pc'[p] = "idle"
                 /\ <<req[p].name, cfg[p].Version>> \in DOMAIN versions
                 /\ DOMAIN version_data' =
                       DOMAIN version_data \cup {<<req[p].name, cfg[p].Version>>}]_vars

\* A Rollback whose repo.UpdateConfiguration failed has returned InternalError
\* and the version it was about to write has no payload.
C33_Witness ==
    /\ returned.req.op = "rollback"
    /\ returned.result.kind = "INTERNAL_ERROR"
    /\ returned.result.msg = "Failed to rollback configuration"
    /\ returned.wrote = {}
    /\ HeadOf("a") = 2
    /\ <<"a", 3>> \notin DOMAIN version_data
    /\ <<"a", 2>> \in DOMAIN version_data

\* C34: the head of a name and its version records move together. In every
\* state the head of a name is the highest version with a record (and a name
\* with no row has no record); every step that advances the head to N+1
\* inserts the record (name, N+1) and every step that inserts a record
\* (name, N+1) leaves the head at N+1; a repo.UpdateConfiguration that is
\* rejected leaves head and records as they were.
C34_HeadAndRecordTogether ==
    [][\A n \in Names :
        /\ HeadOf(n)' = (IF VersionNumbers(n)' = {} THEN 0 ELSE Max(VersionNumbers(n)'))
        /\ HeadOf(n)' # HeadOf(n)
             => /\ <<n, HeadOf(n)'>> \notin DOMAIN versions
                /\ <<n, HeadOf(n)'>> \in DOMAIN versions'
        /\ \A v \in 1 .. MaxVersion :
             (<<n, v>> \notin DOMAIN versions /\ <<n, v>> \in DOMAIN versions')
             => /\ HeadOf(n)' = v
                /\ HeadOf(n) = v - 1
        /\ \A p \in Procs :
             (/\ pc[p] \in {"update.update", "rollback.update"}
              /\ pc'[p] = "idle"
              /\ req[p].name = n)
             => /\ configurations' = configurations
                /\ versions' = versions]_vars

\* A repo.UpdateConfiguration was rejected by the key of versions after a
\* concurrent request had written the same version number.
C34_Witness ==
    /\ returned.req.op \in {"update", "rollback"}
    /\ returned.result.kind = "INTERNAL_ERROR"
    /\ ~returned.faulted
    /\ returned.wrote = {}
    /\ HeadOf("a") = 2
    /\ VersionNumbers("a") = {1, 2}

\* C35 (as claimed): in every state the versions and version_data tables
\* hold the same (name, version) keys.
C35_RecordsAndPayloadsAgree ==
    DOMAIN versions = DOMAIN version_data

\* C38: one request at a time. No step of a Get, GetVersion, ListVersions or
\* GetSchema changes a table, whether the operation returns a result,
\* NotFound or an error after a driver failure.
C38_ReadsDoNotWrite ==
    [][(\/ returned'.req.op \in {"get", "getversion", "list", "getschema"}
        \/ pc["p1"] = "list.versions"
        \/ pc'["p1"] = "list.versions")
       => /\ configurations' = configurations
          /\ versions' = versions
          /\ version_data' = version_data
          /\ schemas' = schemas
          /\ returned'.wrote = {}]_vars

\* A ListVersions failed in its second query on a store that holds a
\* configuration and a schema.
C38_Witness ==
    /\ returned.req.op = "list"
    /\ returned.result.kind = "INTERNAL_ERROR"
    /\ returned.faulted
    /\ HeadOf("a") = 2
    /\ "a" \in DOMAIN schemas

\* C36 (as claimed): the repository called directly. A repo.UpdateConfiguration
\* for a name with no configurations row reports an error and inserts no
\* version record, so no version record is ever stored for a name without a
\* configurations row.
C36_NoRecordWithoutRow ==
    [][/\ \A n \in RepoNames :
            (/\ returned'.req.op = "repo.update"
             /\ returned'.req.name = n
             /\ n \notin DOMAIN configurations)
            => /\ returned'.result.kind # "ok"
               /\ versions' = versions
       /\ \A k \in DOMAIN versions' : k[1] \in DOMAIN configurations']_vars

\* C37: the repository called directly with two names. A call for one name,
\* whatever it writes and whether it succeeds or not, leaves the
\* configurations row, the version records, the payloads and the schema of
\* the other name as they were.
C37_NameIsolation ==
    [][\A x \in RepoNames, y \in RepoNames :
        (returned'.req.name = x /\ y # x)
        => /\ (y \in DOMAIN configurations') = (y \in DOMAIN configurations)
           /\ y \in DOMAIN configurations => configurations'[y] = configurations[y]
           /\ (y \in DOMAIN schemas') = (y \in DOMAIN schemas)
           /\ y \in DOMAIN schemas => schemas'[y] = schemas[y]
           /\ \A v \in RepoVersions :
                /\ (<<y, v>> \in DOMAIN versions') = (<<y, v>> \in DOMAIN versions)
                /\ <<y, v>> \in DOMAIN versions => versions'[<<y, v>>] = versions[<<y, v>>]
                /\ (<<y, v>> \in DOMAIN version_data') = (<<y, v>> \in DOMAIN version_data)
                /\ <<y, v>> \in DOMAIN version_data
                     => version_data'[<<y, v>>] = version_data[<<y, v>>]]_vars

\* The schema of one name was replaced while the other name holds a
\* configuration, a payload and another schema.
C37_Witness ==
    /\ returned.req.op = "repo.register"
    /\ returned.req.name = "a"
    /\ returned.result.kind = "ok"
    /\ "a" \in DOMAIN schemas /\ schemas["a"] = "s_open"
    /\ "b" \in DOMAIN schemas /\ schemas["b"] = "s_strict"
    /\ "b" \in DOMAIN configurations
    /\ <<"b", 1>> \in DOMAIN version_data
    /\ "a" \in DOMAIN configurations

\* C39: every result a use case returns to its handler is answered with the
\* fixed status of its kind: success 201 for Create and RegisterSchema and
\* 200 for the other six handlers, NOT_FOUND 404, ALREADY_EXISTS 409,
\* VALIDATION_FAILED and INVALID_REQUEST 400, INTERNAL_ERROR 500; no other
\* kind is returned, and the body of an error response carries the kind.
C39_StatusByKind ==
    [][(/\ returned'.result.kind # "pending"
        /\ returned'.req.op \in {"create", "update", "get", "getversion", "list",
                                 "rollback", "register", "getschema"})
       => /\ returned'.result.kind \in {"ok", "NOT_FOUND", "ALREADY_EXISTS",
                                        "VALIDATION_FAILED", "INVALID_REQUEST",
                                        "INTERNAL_ERROR"}
          /\ returned'.result.kind = "ok"
               => /\ response'.status =
                       IF returned'.req.op \in {"create", "register"} THEN 201 ELSE 200
                  /\ response'.code = ""
          /\ returned'.result.kind # "ok" => response'.code = returned'.result.kind
          /\ returned'.result.kind = "NOT_FOUND" => response'.status = 404
          /\ returned'.result.kind = "ALREADY_EXISTS" => response'.status = 409
          /\ returned'.result.kind = "VALIDATION_FAILED" => response'.status = 400
          /\ returned'.result.kind = "INVALID_REQUEST" => response'.status = 400
          /\ returned'.result.kind = "INTERNAL_ERROR" => response'.status = 500]_vars

\* RegisterSchema refused a schema document and its handler answered 400.
C39_Witness ==
    /\ returned.req.op = "register"
    /\ returned.result.kind = "INVALID_REQUEST"
    /\ response.status = 400
    /\ response.code = "INVALID_REQUEST"

\* C32: a request to a route of the /api/v1 group is passed on to its
\* handler exactly when its Authorization header is two parts separated by
\* one space, the first "bearer" in any case and the second a configured API
\* key; a request with any other header (none, one part, three parts, another
\* scheme, an unknown or empty key) is answered 401 UNAUTHORIZED and neither
\* its handler nor a use case runs, the store stays as it was. No handler or
\* use case step is taken without an admitted request. /health is answered
\* 200 whatever the header.
C32_AuthenticationGate ==
    [][/\ (gate = NoGate /\ gate'.route \in APIRoutes)
            => IF /\ Len(gate'.header) = 3
                  /\ gate'.header[1] \in {"Bearer", "bearer"}
                  /\ gate'.header[2] = " "
                  /\ gate'.header[3] = "k1"
               THEN /\ gate'.next = "handler"
                    /\ response'.status # 401
               ELSE /\ gate'.next = "abort"
                    /\ response' = [status |-> 401, code |-> "UNAUTHORIZED"]
                    /\ pc' = pc
                    /\ returned'.result.kind = "pending"
                    /\ store' = store
       /\ (\/ pc' # pc
           \/ store' # store
           \/ returned'.result.kind # "pending"
           \/ response'.status \in {200, 201, 400, 404, 409, 500} /\ gate'.route # "health")
            => /\ gate.next = "handler"
               /\ gate.route \in APIRoutes
               /\ Len(gate.header) = 3
               /\ gate.header[1] \in {"Bearer", "bearer"}
               /\ gate.header[2] = " "
               /\ gate.header[3] = "k1"
       /\ gate.next = "abort"
            => /\ gate'.next # "handler"
               /\ pc' = pc
               /\ store' = store
       /\ gate'.route = "health"
            => /\ response' = [status |-> 200, code |-> ""]
               /\ gate'.next = "health"]_vars

\* A request with the scheme in lower case and a configured key was admitted
\* and its handler has written to the store.
C32_Witness ==
    /\ gate.next = "handler"
    /\ gate.header = <<"bearer", " ", "k1">>
    /\ gate.route = "update"
    /\ pc["p1"] # "idle"
    /\ wrote["p1"] # {}

====
